---------------------------- MODULE Spec2Model ----------------------------
(***************************************************************************)
(* rmcp-trash: the three tool handlers of TrashServer (src/src/main.rs),   *)
(* trash_file, trash_files and list_trash, run as concurrent handler       *)
(* invocations over one filesystem and one trash.  The platform trash      *)
(* facility (trash::delete, trash::delete_all, trash::os_limited::list)    *)
(* and Path::exists are the environment.  `calls` records every call of    *)
(* the trash facility in the order in which they happen, and `checks`      *)
(* records, for each request, what each of its Path::exists calls returned *)
(* and how many calls of the facility had happened by then; `fs0` is the   *)
(* filesystem as the server found it.                                      *)
(*                                                                         *)
(* A text is a sequence of string pieces, so that format!, push_str and    *)
(* join are concatenations and a text can be taken apart again.            *)
(***************************************************************************)
EXTENDS Integers, Sequences, FiniteSets, TLC

VARIABLES fs, fs0, trash, calls, checks, req, listSupported

vars == <<fs, fs0, trash, calls, checks, req, listSupported>>

-----------------------------------------------------------------------------
(* Bounds and the universe of inputs *)

\* longest `paths` vector of a trash_files request
MaxLen == 3

\* the path strings a request can carry
Paths == {"/t/a", "/t/b"}

\* the handler invocations that can be in flight together
Reqs == {"r1", "r2"}

RECURSIVE SeqsUpTo(_, _)
SeqsUpTo(S, n) ==
    IF n = 0 THEN {<<>>}
    ELSE LET shorter == SeqsUpTo(S, n - 1)
         IN  shorter \cup {Append(s, x) : s \in {t \in shorter : Len(t) = n - 1}, x \in S}

PathVecs == SeqsUpTo(Paths, MaxLen)

-----------------------------------------------------------------------------
(* Values of the program *)

\* PathBuf::from(&String): an owned path wrapping the string's bytes
PathBufFrom(s) == [inner |-> s]

\* the last component of a path, as the trash records it in TrashItem.name
\* (request paths are Strings, so these names are valid UTF-8 and
\* to_string_lossy leaves them as they are)
FileName(pb) ==
    CASE pb.inner = "/t/a" -> "a"
      [] pb.inner = "/t/b" -> "b"

\* trash::TrashItem, as far as the handlers read it
TrashItem(pb) == [name |-> FileName(pb), original_parent |-> "/t"]

\* the error texts of trash::Error (Display)
ErrNotFound == "path not found"
ErrDenied == "permission denied"
ErrList == "cannot read trash directory"

\* what a call of the trash facility returns: Ok(()) / Ok(items) / Err(e)
ResOk == [ok |-> TRUE, err |-> "", items |-> <<>>]
ResItems(items) == [ok |-> TRUE, err |-> "", items |-> items]
ResErr(e) == [ok |-> FALSE, err |-> e, items |-> <<>>]

\* Result<CallToolResult, McpError>
CallToolResultSuccess(content) == [kind |-> "Ok", is_error |-> FALSE, content |-> content]
McpErr(text) == [kind |-> "Err", is_error |-> TRUE, content |-> <<text>>]
ContentText(text) == [type |-> "text", text |-> text]

NoResponse == [kind |-> "none", is_error |-> FALSE, content |-> <<>>]


-----------------------------------------------------------------------------
(* Texts *)

\* [T]::join(sep), piece by piece
RECURSIVE Join(_, _)
Join(strs, sep) ==
    IF Len(strs) = 0 THEN <<>>
    ELSE IF Len(strs) = 1 THEN <<strs[1]>>
    ELSE <<strs[1], sep>> \o Join(Tail(strs), sep)

MsgDoesNotExist(path) == <<"Path does not exist: ", path>>
MsgMoved(path) == <<"Moved to trash: ", path>>
MsgFailed(e) == <<"Failed to trash: ", e>>
MsgNoValid == <<"No valid paths to trash">>

\* (the count taken over everything that was submitted)
MsgMovedItemsCountsAll(to_trash, missing) ==
    LET msg == <<"Moved ", ToString(Len(to_trash) + Len(missing)), " items to trash">>
    IN  IF missing # <<>>
        THEN msg \o <<"\nSkipped (not found): ">> \o Join(missing, ", ")
        ELSE msg

MsgMovedItems(to_trash, missing) ==
    LET msg == <<"Moved ", ToString(Len(to_trash)), " items to trash">>
    IN  IF missing # <<>>
        THEN msg \o <<"\nSkipped (not found): ">> \o Join(missing, ", ")
        ELSE msg

MsgTrashEmpty == <<"Trash is empty">>

\* (the names collected back to front)
ItemNamesReversed(items) == [k \in 1..Len(items) |-> items[Len(items) + 1 - k].name]

ItemNames(items) == [k \in 1..Len(items) |-> items[k].name]

MsgTrashContents(items) ==
    <<"Trash contents (", ToString(Len(items)), " items):\n">>
        \o Join(ItemNames(items), "\n")

MsgFailedList(e) == <<"Failed to list trash: ", e>>
MsgUnsupported == <<"list_trash is not supported on this platform (Linux/Windows only)">>

\* Ok(CallToolResult::success(vec![Content::text(msg)]))
Respond(msg) == CallToolResultSuccess(<<ContentText(msg)>>)

-----------------------------------------------------------------------------
(* The environment: the filesystem and the trash facility *)

\* Path::exists
Exists(files, pb) == pb.inner \in files

\* trash::delete: one atomic move; fails on an absent path, and may fail on a
\* present one (`fault`) leaving everything as it was
DelegateDelete(files, tr, pb, fault) ==
    IF ~Exists(files, pb)
    THEN [fs |-> files, trash |-> tr, ret |-> ResErr(ErrNotFound)]
    ELSE IF fault
    THEN [fs |-> files, trash |-> tr, ret |-> ResErr(ErrDenied)]
    ELSE [fs |-> files \ {pb.inner}, trash |-> Append(tr, TrashItem(pb)), ret |-> ResOk]

\* trash::delete_all: moves the paths one after the other and stops at the
\* first failure, keeping what it moved so far; faultAt = k > 0 makes the
\* k-th move fail although its path is there
RECURSIVE DelegateDeleteAllFrom(_, _, _, _, _)
DelegateDeleteAllFrom(files, tr, pbs, k, faultAt) ==
    IF k > Len(pbs)
    THEN [fs |-> files, trash |-> tr, ret |-> ResOk]
    ELSE LET one == DelegateDelete(files, tr, pbs[k], k = faultAt)
         IN  IF one.ret.ok
             THEN DelegateDeleteAllFrom(one.fs, one.trash, pbs, k + 1, faultAt)
             ELSE one

DelegateDeleteAll(files, tr, pbs, faultAt) == DelegateDeleteAllFrom(files, tr, pbs, 1, faultAt)

\* trash::os_limited::list: the items in an order of the facility's choosing
Reorder(tr, f) == [k \in 1..Len(tr) |-> tr[f[k]]]

DelegateList(tr) ==
    {ResItems(Reorder(tr, f)) : f \in Permutations(1..Len(tr))} \cup {ResErr(ErrList)}

\* a recorded call of the trash facility, and a recorded Path::exists
\* (`moved`: how many entries the call moved into the trash)
Call(r, op, arg, ret, moved) == [req |-> r, op |-> op, arg |-> arg, ret |-> ret, moved |-> moved]
Check(pb, found, at) == [arg |-> pb, found |-> found, at |-> at]

-----------------------------------------------------------------------------
(* State *)

NoParams == [path |-> "", paths |-> <<>>]

IdleReq ==
    [op |-> "none", params |-> NoParams, pc |-> "idle", paths |-> <<>>, i |-> 0,
     to_trash |-> <<>>, missing |-> <<>>, response |-> NoResponse]

Init ==
    /\ fs \in SUBSET Paths
    /\ fs0 = fs
    /\ trash = <<>>
    /\ calls = <<>>
    /\ checks = [r \in Reqs |-> <<>>]
    /\ req = [r \in Reqs |-> IdleReq]
    /\ listSupported \in BOOLEAN

-----------------------------------------------------------------------------
(* trash_file *)

\* the request arrives; let path = PathBuf::from(&params.path)
TrashFileBegin(r, path) ==
    /\ req[r].pc = "idle"
    /\ req' = [req EXCEPT ![r] = [@ EXCEPT !.op = "trash_file",
                                          !.params = [NoParams EXCEPT !.path = path],
                                          !.paths = <<PathBufFrom(path)>>,
                                          !.pc = "exists"]]
    /\ UNCHANGED <<fs, fs0, trash, calls, checks, listSupported>>

\* (the check without its early return)
TrashFileExistsFallsThrough(r) ==
    /\ req[r].op = "trash_file"
    /\ req[r].pc = "exists"
    /\ LET pb == req[r].paths[1]
           found == Exists(fs, pb)
       IN  /\ checks' = [checks EXCEPT ![r] = Append(@, Check(pb, found, Len(calls)))]
           /\ req' = [req EXCEPT ![r] = [@ EXCEPT !.pc = "delete"]]
    /\ UNCHANGED <<fs, fs0, trash, calls, listSupported>>

\* if !path.exists() { return "Path does not exist: {params.path}" }
TrashFileExists(r) ==
    /\ req[r].op = "trash_file"
    /\ req[r].pc = "exists"
    /\ LET pb == req[r].paths[1]
           found == Exists(fs, pb)
       IN  /\ checks' = [checks EXCEPT ![r] = Append(@, Check(pb, found, Len(calls)))]
           /\ req' = [req EXCEPT ![r] =
                        IF found
                        THEN [@ EXCEPT !.pc = "delete"]
                        ELSE [@ EXCEPT !.pc = "done",
                                       !.response = Respond(MsgDoesNotExist(req[r].params.path))]]
    /\ UNCHANGED <<fs, fs0, trash, calls, listSupported>>

\* (a path that is gone already counted as moved)
TrashFileAnswerIgnoresGone(params, ret) ==
    IF ret.ok \/ ret.err = ErrNotFound
    THEN Respond(MsgMoved(params.path))
    ELSE Respond(MsgFailed(ret.err))

\* (a failure of trash::delete passed on with `?`)
TrashFileAnswerPropagates(params, ret) ==
    IF ret.ok
    THEN Respond(MsgMoved(params.path))
    ELSE McpErr(ret.err)

\* the answer to what trash::delete(&path) returned
TrashFileAnswer(params, ret) ==
    IF ret.ok
    THEN Respond(MsgMoved(params.path))
    ELSE Respond(MsgFailed(ret.err))

\* (trash::delete tried a second time when it fails)
TrashFileDeleteRetries(r) ==
    /\ req[r].op = "trash_file"
    /\ req[r].pc = "delete"
    /\ \E fault \in BOOLEAN :
         LET pb == req[r].paths[1]
             first == DelegateDelete(fs, trash, pb, fault)
             out == IF first.ret.ok THEN first ELSE DelegateDelete(fs, trash, pb, FALSE)
             made == IF first.ret.ok
                     THEN <<Call(r, "delete", <<pb>>, first.ret, 1)>>
                     ELSE <<Call(r, "delete", <<pb>>, first.ret, 0),
                            Call(r, "delete", <<pb>>, out.ret, Len(out.trash) - Len(trash))>>
         IN  /\ fs' = out.fs
             /\ trash' = out.trash
             /\ calls' = calls \o made
             /\ req' = [req EXCEPT ![r] =
                          [@ EXCEPT !.pc = "done",
                                    !.response = TrashFileAnswer(req[r].params, out.ret)]]
    /\ UNCHANGED <<fs0, checks, listSupported>>

\* match trash::delete(&path) { Ok(()) => ..., Err(e) => ... }
TrashFileDelete(r) ==
    /\ req[r].op = "trash_file"
    /\ req[r].pc = "delete"
    /\ \E fault \in BOOLEAN :
         LET pb == req[r].paths[1]
             out == DelegateDelete(fs, trash, pb, fault)
         IN  /\ fs' = out.fs
             /\ trash' = out.trash
             /\ calls' = Append(calls, Call(r, "delete", <<pb>>, out.ret,
                                                  Len(out.trash) - Len(trash)))
             /\ req' = [req EXCEPT ![r] =
                          [@ EXCEPT !.pc = "done",
                                    !.response = TrashFileAnswer(req[r].params, out.ret)]]
    /\ UNCHANGED <<fs0, checks, listSupported>>

-----------------------------------------------------------------------------
(* trash_files *)

\* the request arrives; paths = params.paths.iter().map(PathBuf::from).collect()
TrashFilesBegin(r, pathvec) ==
    /\ req[r].pc = "idle"
    /\ req' = [req EXCEPT ![r] =
                 [@ EXCEPT !.op = "trash_files",
                           !.params = [NoParams EXCEPT !.paths = pathvec],
                           !.paths = [k \in 1..Len(pathvec) |-> PathBufFrom(pathvec[k])],
                           !.i = 0,
                           !.pc = "scan"]]
    /\ UNCHANGED <<fs, fs0, trash, calls, checks, listSupported>>

\* (a turn of the loop that puts the found path in front of to_trash)
PartitionPrepends(rq, found) ==
    IF found
    THEN [rq EXCEPT !.to_trash = <<rq.paths[rq.i + 1]>> \o @, !.i = @ + 1]
    ELSE [rq EXCEPT !.missing = Append(@, rq.params.paths[rq.i + 1]), !.i = @ + 1]

\* one turn of: for (i, path) in paths.iter().enumerate() { ... }
\* (i counts from 0 as in the code; paths[i] is the model's paths[i + 1])
Partition(rq, found) ==
    IF found
    THEN [rq EXCEPT !.to_trash = Append(@, rq.paths[rq.i + 1]), !.i = @ + 1]
    ELSE [rq EXCEPT !.missing = Append(@, rq.params.paths[rq.i + 1]), !.i = @ + 1]

TrashFilesScan(r) ==
    /\ req[r].op = "trash_files"
    /\ req[r].pc = "scan"
    /\ req[r].i < Len(req[r].paths)
    /\ LET pb == req[r].paths[req[r].i + 1]
           found == Exists(fs, pb)
       IN  /\ checks' = [checks EXCEPT ![r] = Append(@, Check(pb, found, Len(calls)))]
           /\ req' = [req EXCEPT ![r] = Partition(@, found)]
    /\ UNCHANGED <<fs, fs0, trash, calls, listSupported>>

\* (the skipped paths reported after a failure as well)
TrashFilesAnswerListsSkipped(to_trash, missing, ret) ==
    IF ret.ok
    THEN Respond(MsgMovedItems(to_trash, missing))
    ELSE IF missing # <<>>
    THEN Respond(MsgFailed(ret.err) \o <<"\nSkipped (not found): ">> \o Join(missing, ", "))
    ELSE Respond(MsgFailed(ret.err))

\* the answer to what trash::delete_all(&to_trash) returned
TrashFilesAnswer(to_trash, missing, ret) ==
    IF ret.ok
    THEN Respond(MsgMovedItems(to_trash, missing))
    ELSE Respond(MsgFailed(ret.err))

\* (the loop's result used without the early return for an empty to_trash)
TrashFilesNoValidFallsThrough(r) ==
    /\ req[r].op = "trash_files"
    /\ req[r].pc = "scan"
    /\ req[r].i = Len(req[r].paths)
    /\ req[r].to_trash = <<>>
    /\ calls' = Append(calls, Call(r, "delete_all", <<>>, ResOk, 0))
    /\ req' = [req EXCEPT ![r] =
                 [@ EXCEPT !.pc = "done",
                           !.response = Respond(MsgMovedItems(req[r].to_trash, req[r].missing))]]
    /\ UNCHANGED <<fs, fs0, trash, checks, listSupported>>

\* after the loop: if to_trash.is_empty() { return "No valid paths to trash" }
TrashFilesNoValid(r) ==
    /\ req[r].op = "trash_files"
    /\ req[r].pc = "scan"
    /\ req[r].i = Len(req[r].paths)
    /\ req[r].to_trash = <<>>
    /\ req' = [req EXCEPT ![r] = [@ EXCEPT !.pc = "done", !.response = Respond(MsgNoValid)]]
    /\ UNCHANGED <<fs, fs0, trash, calls, checks, listSupported>>

\* after the loop: match trash::delete_all(&to_trash) { Ok(()) => ..., Err(e) => ... }
TrashFilesDeleteAll(r) ==
    /\ req[r].op = "trash_files"
    /\ req[r].pc = "scan"
    /\ req[r].i = Len(req[r].paths)
    /\ req[r].to_trash # <<>>
    /\ \E faultAt \in 0..Len(req[r].to_trash) :
         LET out == DelegateDeleteAll(fs, trash, req[r].to_trash, faultAt)
         IN  /\ fs' = out.fs
             /\ trash' = out.trash
             /\ calls' = Append(calls, Call(r, "delete_all", req[r].to_trash, out.ret,
                                                  Len(out.trash) - Len(trash)))
             /\ req' = [req EXCEPT ![r] =
                          [@ EXCEPT !.pc = "done",
                                    !.response = TrashFilesAnswer(req[r].to_trash, req[r].missing, out.ret)]]
    /\ UNCHANGED <<fs0, checks, listSupported>>

-----------------------------------------------------------------------------
(* list_trash *)

\* the answer to what trash::os_limited::list() returned
ListTrashAnswer(ret) ==
    IF ret.ok
    THEN IF ret.items = <<>>
         THEN Respond(MsgTrashEmpty)
         ELSE Respond(MsgTrashContents(ret.items))
    ELSE Respond(MsgFailedList(ret.err))

\* (listing compiled in whatever the target is)
ListTrashUnconditional(r) ==
    /\ req[r].pc = "idle"
    /\ \E ret \in DelegateList(trash) :
         /\ calls' = Append(calls, Call(r, "list", <<>>, ret, 0))
         /\ req' = [req EXCEPT ![r] =
                      [@ EXCEPT !.op = "list_trash", !.pc = "done",
                                !.response = ListTrashAnswer(ret)]]
    /\ UNCHANGED <<fs, fs0, trash, checks, listSupported>>

\* #[cfg(any(target_os = "linux", target_os = "windows"))]
ListTrashSupported(r) ==
    /\ req[r].pc = "idle"
    /\ listSupported
    /\ \E ret \in DelegateList(trash) :
         /\ calls' = Append(calls, Call(r, "list", <<>>, ret, 0))
         /\ req' = [req EXCEPT ![r] =
                      [@ EXCEPT !.op = "list_trash", !.pc = "done",
                                !.response = ListTrashAnswer(ret)]]
    /\ UNCHANGED <<fs, fs0, trash, checks, listSupported>>

\* #[cfg(not(any(target_os = "linux", target_os = "windows")))]
ListTrashUnsupported(r) ==
    /\ req[r].pc = "idle"
    /\ ~listSupported
    /\ req' = [req EXCEPT ![r] =
                 [@ EXCEPT !.op = "list_trash", !.pc = "done",
                           !.response = Respond(MsgUnsupported)]]
    /\ UNCHANGED <<fs, fs0, trash, calls, checks, listSupported>>

-----------------------------------------------------------------------------
(* The server *)

Next ==
    \/ \E r \in Reqs, path \in Paths : TrashFileBegin(r, path)
    \/ \E r \in Reqs : TrashFileExists(r)
    \/ \E r \in Reqs : TrashFileDelete(r)
    \/ \E r \in Reqs, pathvec \in PathVecs : TrashFilesBegin(r, pathvec)
    \/ \E r \in Reqs : TrashFilesScan(r)
    \/ \E r \in Reqs : TrashFilesNoValid(r)
    \/ \E r \in Reqs : TrashFilesDeleteAll(r)
    \/ \E r \in Reqs : ListTrashSupported(r)
    \/ \E r \in Reqs : ListTrashUnsupported(r)

Spec == Init /\ [][Next]_vars

-----------------------------------------------------------------------------
(* What a run shows of a request *)

Done(r) == req[r].pc = "done"

\* the text of the response's only content
Text(r) == req[r].response.content[1].text

\* the calls of the trash facility that request r made, in order
CallsOf(r) == SelectSeq(calls, LAMBDA c : c.req = r)

\* the entries of `strs` whose existence check returned `want`, in input order;
\* only the entries checked so far count
RECURSIVE Checked(_, _, _)
Checked(strs, chk, want) ==
    IF Len(strs) = 0 \/ Len(chk) = 0 THEN <<>>
    ELSE IF chk[1].found = want
         THEN <<strs[1]>> \o Checked(Tail(strs), Tail(chk), want)
         ELSE Checked(Tail(strs), Tail(chk), want)

ExistingOf(r) == Checked(req[r].params.paths, checks[r], TRUE)
MissingOf(r) == Checked(req[r].params.paths, checks[r], FALSE)

AsPathBufs(strs) == [k \in 1..Len(strs) |-> [inner |-> strs[k]]]

\* strs[1] sep strs[2] sep ... strs[n], for n > 0
Separated(strs, sep) ==
    [k \in 1..(2 * Len(strs) - 1) |-> IF k % 2 = 1 THEN strs[(k + 1) \div 2] ELSE sep]

-----------------------------------------------------------------------------
(* C1 *)

ExpectedBatchText(existing, missing) ==
    <<"Moved ", ToString(Len(existing)), " items to trash">>
        \o (IF Len(missing) > 0
            THEN <<"\nSkipped (not found): ">> \o Separated(missing, ", ")
            ELSE <<>>)

\* C1: trash_files splits its input by the existence check into `existing`
\* and `missing`, each in input order and with duplicates kept; when
\* `existing` is not empty it calls delete_all exactly once, with exactly
\* `existing`, and if that succeeds it answers "Moved {N} items to trash",
\* N = Len(existing), followed by "\nSkipped (not found): " and the missing
\* strings joined by ", " exactly when `missing` is not empty.
C1_BatchPartitionAndReport ==
    \A r \in Reqs :
        req[r].op = "trash_files" =>
            /\ req[r].to_trash = AsPathBufs(ExistingOf(r))
            /\ req[r].missing = MissingOf(r)
            /\ Len(CallsOf(r)) <= 1
            /\ \A k \in 1..Len(CallsOf(r)) :
                   /\ CallsOf(r)[k].op = "delete_all"
                   /\ CallsOf(r)[k].arg = AsPathBufs(ExistingOf(r))
                   /\ \A j \in 1..Len(CallsOf(r)[k].arg) :
                          \E c \in 1..Len(checks[r]) :
                              checks[r][c].arg = CallsOf(r)[k].arg[j] /\ checks[r][c].found
            /\ (Done(r) /\ Len(ExistingOf(r)) > 0) =>
                   /\ Len(checks[r]) = Len(req[r].params.paths)
                   /\ Len(CallsOf(r)) = 1
                   /\ CallsOf(r)[1].ret.ok =>
                          Text(r) = ExpectedBatchText(ExistingOf(r), MissingOf(r))

\* a batch of three with entries skipped and an entry moved has been answered
C1_Witness ==
    \E r \in Reqs :
        /\ req[r].op = "trash_files" /\ Done(r)
        /\ Len(req[r].params.paths) = 3
        /\ Len(MissingOf(r)) = 2
        /\ Len(CallsOf(r)) = 1 /\ CallsOf(r)[1].ret.ok
        /\ Text(r)[4] = "\nSkipped (not found): "

-----------------------------------------------------------------------------
(* C2 *)

\* C2: a trash_file request whose path did not exist when it was checked
\* answers "Path does not exist: {path}" with the request's own string and
\* never calls the trash facility; the step that answers leaves the
\* filesystem and the trash as they were.
C2_MissingSingleNoCall ==
    /\ [](\A r \in Reqs :
            (req[r].op = "trash_file" /\ Len(checks[r]) > 0 /\ ~checks[r][1].found) =>
                /\ Done(r)
                /\ req[r].response.kind = "Ok"
                /\ Text(r) = <<"Path does not exist: ", req[r].params.path>>
                /\ CallsOf(r) = <<>>)
    /\ [][\A r \in Reqs :
            (req[r].op = "trash_file" /\ Len(checks'[r]) > Len(checks[r])
               /\ ~checks'[r][1].found) =>
                (fs' = fs /\ trash' = trash /\ calls' = calls)]_vars

\* a trash_file request for a path that was not there has been answered
C2_Witness ==
    \E r \in Reqs :
        /\ req[r].op = "trash_file" /\ Done(r)
        /\ Len(checks[r]) = 1 /\ ~checks[r][1].found

-----------------------------------------------------------------------------
(* C3 *)

\* C3: a trash_files request none of whose paths existed when checked (the
\* empty input included) answers exactly "No valid paths to trash" and never
\* calls the trash facility.
C3_NoValidPaths ==
    \A r \in Reqs :
        (req[r].op = "trash_files" /\ ExistingOf(r) = <<>>) =>
            /\ CallsOf(r) = <<>>
            /\ Done(r) => /\ Len(checks[r]) = Len(req[r].params.paths)
                          /\ Text(r) = <<"No valid paths to trash">>

\* one batch with an empty input and one batch of missing paths only have
\* both been answered
C3_Witness ==
    \E r, q \in Reqs :
        /\ req[r].op = "trash_files" /\ Done(r) /\ req[r].params.paths = <<>>
        /\ req[q].op = "trash_files" /\ Done(q) /\ Len(req[q].params.paths) = 3
        /\ Len(MissingOf(q)) = 3

-----------------------------------------------------------------------------
(* C4 *)

\* the count a text reports as moved: the number after "Moved ", none otherwise
ReportsMoved(text, n) ==
    IF text[1] = "Moved " THEN text[2] = ToString(n) ELSE n = 0

\* the number of paths a text lists as skipped
ReportedSkipped(text) ==
    IF Len(text) > 4 /\ text[4] = "\nSkipped (not found): "
    THEN (Len(text) - 4 + 1) \div 2
    ELSE 0

CountsAddUp(r) ==
    \E n \in 0..Len(req[r].params.paths) :
        /\ ReportsMoved(Text(r), n)
        /\ n + ReportedSkipped(Text(r)) = Len(req[r].params.paths)

\* C4 as claimed: for every answered batch the count reported as moved plus
\* the number of paths reported as skipped is the number of input paths.
C4_AsClaimed ==
    \A r \in Reqs : (req[r].op = "trash_files" /\ Done(r)) => CountsAddUp(r)

\* C4 amended: for every batch that is answered after delete_all succeeded,
\* the count reported as moved plus the number of paths reported as skipped
\* is the number of input paths (duplicates counted).
C4_CountsAddUpOnSuccess ==
    \A r \in Reqs :
        (req[r].op = "trash_files" /\ Done(r)
           /\ Len(CallsOf(r)) = 1 /\ CallsOf(r)[1].ret.ok) => CountsAddUp(r)

\* a batch with a duplicated missing path and a moved path has been answered
C4_Witness ==
    \E r \in Reqs :
        /\ req[r].op = "trash_files" /\ Done(r)
        /\ Len(CallsOf(r)) = 1 /\ CallsOf(r)[1].ret.ok
        /\ Len(req[r].params.paths) = 3
        /\ \E j, k \in 1..3 : j # k /\ req[r].params.paths[j] = req[r].params.paths[k]
        /\ ReportedSkipped(Text(r)) = 2

-----------------------------------------------------------------------------
(* C5 *)

\* C5: every response of every handler is a protocol success carrying one
\* text; whatever the trash facility failed with is inside that text.
C5_AlwaysProtocolSuccess ==
    \A r \in Reqs :
        /\ Done(r) <=> req[r].response # NoResponse
        /\ Done(r) =>
              /\ req[r].response.kind = "Ok"
              /\ ~req[r].response.is_error
              /\ Len(req[r].response.content) = 1
              /\ req[r].response.content[1].type = "text"
              /\ Len(Text(r)) > 0
              /\ \A k \in 1..Len(CallsOf(r)) :
                     ~CallsOf(r)[k].ret.ok =>
                         \E j \in 1..Len(Text(r)) : Text(r)[j] = CallsOf(r)[k].ret.err

\* a request has been answered after the trash facility failed
C5_Witness ==
    \E r \in Reqs :
        /\ Done(r)
        /\ Len(CallsOf(r)) = 1 /\ ~CallsOf(r)[1].ret.ok
        /\ req[r].response.kind = "Ok"

-----------------------------------------------------------------------------
(* C6 *)

\* C6: a trash_file request whose path existed when it was checked calls
\* delete exactly once, with that path, and answers "Moved to trash: {path}"
\* if the call succeeded and "Failed to trash: {error}" with the call's
\* error if it failed.
C6_ExistingSingleDeletedOnce ==
    \A r \in Reqs :
        (req[r].op = "trash_file" /\ Len(checks[r]) > 0 /\ checks[r][1].found) =>
            /\ Len(CallsOf(r)) = (IF Done(r) THEN 1 ELSE 0)
            /\ Done(r) =>
                  /\ CallsOf(r)[1].op = "delete"
                  /\ CallsOf(r)[1].arg = <<[inner |-> req[r].params.path]>>
                  /\ Text(r) = IF CallsOf(r)[1].ret.ok
                               THEN <<"Moved to trash: ", req[r].params.path>>
                               ELSE <<"Failed to trash: ", CallsOf(r)[1].ret.err>>

\* one trash_file request was answered with a move and one with a failure
C6_Witness ==
    \E r, q \in Reqs :
        /\ req[r].op = "trash_file" /\ Done(r) /\ Text(r)[1] = "Moved to trash: "
        /\ req[q].op = "trash_file" /\ Done(q) /\ Text(q)[1] = "Failed to trash: "
        /\ Len(CallsOf(q)) = 1

-----------------------------------------------------------------------------
(* C7 *)

ExpectedListText(ret) ==
    IF ~ret.ok THEN <<"Failed to list trash: ", ret.err>>
    ELSE IF Len(ret.items) = 0 THEN <<"Trash is empty">>
    ELSE <<"Trash contents (", ToString(Len(ret.items)), " items):\n">>
             \o Separated([k \in 1..Len(ret.items) |-> ret.items[k].name], "\n")

\* C7: on a build with listing, list_trash calls list once and answers
\* "Trash is empty" for an empty result, "Trash contents ({N} items):\n" and
\* the names joined by newlines, N names in the order list returned them,
\* for a non-empty one, and "Failed to list trash: {error}" for a failure.
C7_ListingReportsDelegateOrder ==
    \A r \in Reqs :
        (listSupported /\ req[r].op = "list_trash") =>
            /\ Done(r)
            /\ Len(CallsOf(r)) = 1
            /\ CallsOf(r)[1].op = "list"
            /\ Text(r) = ExpectedListText(CallsOf(r)[1].ret)

\* list_trash has answered with two items that list returned in another
\* order than the one in which they were moved
C7_Witness ==
    \E r \in Reqs :
        /\ listSupported /\ req[r].op = "list_trash" /\ Done(r)
        /\ Len(CallsOf(r)[1].ret.items) = 2
        /\ CallsOf(r)[1].ret.items # trash
        /\ Text(r)[2] = "2"

-----------------------------------------------------------------------------
(* C8 *)

\* C8: on a build without listing, every list_trash request answers the
\* fixed "not supported" text and the trash facility is never asked to list,
\* whatever is in the trash; the build's capability never changes.
C8_UnsupportedListingIsFixed ==
    /\ [](~listSupported =>
            /\ \A k \in 1..Len(calls) : calls[k].op # "list"
            /\ \A r \in Reqs :
                   req[r].op = "list_trash" =>
                       /\ Done(r)
                       /\ CallsOf(r) = <<>>
                       /\ Text(r) =
                            <<"list_trash is not supported on this platform (Linux/Windows only)">>)
    /\ [][listSupported' = listSupported]_vars

\* list_trash has answered on a build without listing while the trash held
\* something
C8_Witness ==
    \E r \in Reqs :
        /\ ~listSupported /\ req[r].op = "list_trash" /\ Done(r)
        /\ Len(trash) > 0

-----------------------------------------------------------------------------
(* C9 *)

FailedBatch(r) ==
    /\ req[r].op = "trash_files" /\ Done(r)
    /\ Len(CallsOf(r)) = 1 /\ ~CallsOf(r)[1].ret.ok

\* C9: when delete_all fails, the text is exactly "Failed to trash: {error}":
\* no count, no skipped paths, and the same text for the same error however
\* many of the submitted paths were moved before the failure.
C9_BatchFailureOnlyError ==
    /\ \A r \in Reqs :
           FailedBatch(r) => Text(r) = <<"Failed to trash: ", CallsOf(r)[1].ret.err>>
    /\ \A r, q \in Reqs :
           (FailedBatch(r) /\ FailedBatch(q)
              /\ CallsOf(r)[1].ret.err = CallsOf(q)[1].ret.err) => Text(r) = Text(q)

\* two batches failed with the same error, one after moving nothing and with
\* a missing path, the other after moving one of its two paths
C9_Witness ==
    \E r, q \in Reqs :
        /\ FailedBatch(r) /\ FailedBatch(q)
        /\ CallsOf(r)[1].ret.err = CallsOf(q)[1].ret.err
        /\ CallsOf(r)[1].moved = 0 /\ Len(MissingOf(r)) > 0
        /\ CallsOf(q)[1].moved = 1 /\ Len(CallsOf(q)[1].arg) = 2

-----------------------------------------------------------------------------
(* C10 *)

\* both requests are answered trash_file requests for p, which was there at
\* the start, and the trash facility failed only on absent paths
RacedFor(r, q, p) ==
    /\ r # q
    /\ req[r].op = "trash_file" /\ req[r].params.path = p /\ Done(r)
    /\ req[q].op = "trash_file" /\ req[q].params.path = p /\ Done(q)
    /\ p \in fs0
    /\ \A k \in 1..Len(calls) : calls[k].ret.ok \/ calls[k].ret.err = ErrNotFound

\* the position in `calls` of the only call of request r
CallIndex(r) == CHOOSE k \in 1..Len(calls) : calls[k].req = r

\* request w moved p and request l, racing with it, did not
WonAgainst(w, l, p) ==
    /\ Text(w) = <<"Moved to trash: ", p>>
    /\ Text(l) # Text(w)
    /\ IF checks[l][1].at >= CallIndex(w)
       THEN /\ Text(l) = <<"Path does not exist: ", p>>
            /\ CallsOf(l) = <<>>
       ELSE /\ Len(CallsOf(l)) = 1
            /\ CallIndex(l) > CallIndex(w)
            /\ Text(l) = <<"Failed to trash: ", calls[CallIndex(l)].ret.err>>

\* C10: of two concurrent trash_file requests for the same existing path,
\* with a delete that is atomic and fails on an absent path, the path is
\* moved once, exactly one request answers "Moved to trash: {path}", and the
\* other answers "Path does not exist: {path}" if its existence check came
\* after that delete and "Failed to trash: {error}" if it came before.
C10_RaceForOnePath ==
    \A p \in Paths : \A r, q \in Reqs :
        RacedFor(r, q, p) =>
            /\ Cardinality({k \in 1..Len(trash) : trash[k] = TrashItem([inner |-> p])}) = 1
            /\ p \notin fs
            /\ WonAgainst(r, q, p) \/ WonAgainst(q, r, p)

\* a race was lost between the check and the delete: the loser found the
\* path and its delete failed
C10_Witness ==
    \E p \in Paths : \E r, q \in Reqs :
        /\ RacedFor(r, q, p)
        /\ Text(r) = <<"Moved to trash: ", p>>
        /\ checks[q][1].found
        /\ checks[q][1].at < CallIndex(r)
        /\ Text(q)[1] = "Failed to trash: "

=============================================================================
